---------------------------- MODULE Spec2Model ----------------------------
(***************************************************************************)
(* sonic_spectra: the capture thread (src/src/audio.rs) and the periodic   *)
(* draw function (src/src/lib.rs) sharing one Arc<Mutex<AudioData>>, the   *)
(* configuration (src/src/settings.rs) and the bars the visualizer derives *)
(* from it (src/src/frequency_range_visualizer.rs, src/src/fft_utils.rs).  *)
(*                                                                         *)
(* Spec         the callback and the draw function step by step, under one *)
(*              valid configuration that selects no bin                    *)
(* SpecShutdown Spec with the Q key and the exit thread                    *)
(* SpecDraw     the callback and the draw function as single steps, under  *)
(*              every configuration of Settings_new                        *)
(* SpecFair     the callback and the draw function step by step once the   *)
(*              stream plays, under a fair scheduler                       *)
(*                                                                         *)
(* Rust vectors and slices are 0-based; they are modelled as TLA+          *)
(* sequences, element i of the code being element i+1 of the sequence.     *)
(* A sample is an integer; 0 stands for the float 0.0.                     *)
(***************************************************************************)
EXTENDS Integers, Sequences, FiniteSets, TLC

\* ------------------------------------------------------------------ bounds

\* settings.fft.size of the run that is explored
FftSize == 2

\* longest buffer the driver delivers to the input callback
MaxDataLen == 4

\* largest channel count of the device's default input configuration
MaxChannels == 2

\* number of buffers the driver delivers in one run
MaxCallbacks == 3

\* highest min_frequency / max_frequency of a configuration, in Hz
MaxFrequency == 5

\* interpolation_factor is counted in units of 1/FactorDen
FactorDen == 2

\* ------------------------------------------------------------------ inputs

\* the non-zero sample values a buffer is made of
Samples == {1, 2}

ChannelCounts == 1..MaxChannels

\* every &[f32] the driver can hand to the input callback
DataBuffers == UNION { [1..n -> Samples] : n \in 0..MaxDataLen }

\* outcomes of the capture thread's start-up (audio.rs 38-98)
StartOutcomes == {"no_device", "no_config", "build_failed", "play_failed", "running"}

\* ------------------------------------------------------------------ state

VARIABLES
    audio,           \* the AudioData behind the mutex
    poisoned,        \* the mutex's poison flag
    cb_guard,        \* the input callback owns a MutexGuard
    tick_guard,      \* the draw function owns a MutexGuard (`audio`, lib.rs 135)
    stream,          \* where the capture thread stands
    channels,        \* config.channels()
    err_logged,      \* the stream's error callback has run
    cb_pc,           \* position of the input callback
    cb_data,         \* its `data` argument (<<>> outside a call)
    cb_i,            \* its loop variable i
    cb_seq,          \* number of buffers delivered so far (history)
    done,            \* what the last callback that returned had to extract (history)
    audio_src,       \* per cell: which delivery stored it last, 0 = vec![0.0; n] (history)
    tick_pc,         \* position of the draw function
    planner_guard,   \* a MutexGuard of the planner is alive (lib.rs 148-155)
    input_left,      \* its local input_left  (<<>> while not yet cloned)
    input_right,     \* its local input_right (<<>> while not yet cloned)
    input_left_src,  \* audio_src.left_buffer as of the clone (history)
    input_right_src, \* audio_src.right_buffer as of the clone (history)
    app,             \* "running", "quit" once Q sent the exit signal, "exited"
    settings,        \* the Settings that Settings::new returned
    previous_heights_left,   \* bar state of the left channel  (lib.rs 121)
    previous_heights_right,  \* bar state of the right channel (lib.rs 122)
    fft_left,        \* the last draw's slice fft_left[min_index..max_index], as norms (history)
    fft_right,       \* the last draw's slice fft_right[min_index..max_index], as norms (history)
    drawn            \* passes the last draw made through each of its two loops (history)

vars == <<audio, poisoned, cb_guard, tick_guard, stream, channels,
          err_logged, cb_pc, cb_data, cb_i, cb_seq, done, audio_src,
          tick_pc, planner_guard, input_left, input_right, input_left_src,
          input_right_src, app, settings, previous_heights_left, previous_heights_right,
          fft_left, fft_right, drawn>>

capture_vars == <<stream, channels, err_logged, cb_pc, cb_data, cb_i, cb_seq, done>>

tick_vars == <<tick_pc, planner_guard, input_left, input_right, input_left_src,
               input_right_src>>

draw_vars == <<settings, previous_heights_left, previous_heights_right,
               fft_left, fft_right, drawn>>

\* let fft_size = settings.fft.size
fft_size == FftSize

\* ------------------------------------------------------------------ AudioData

\* vec![v; n]
VecOf(v, n) == [k \in 1..n |-> v]

AudioData_new(n) == [left_buffer |-> VecOf(0, n), right_buffer |-> VecOf(0, n)]

\* a store that grows the vector instead of writing in place (push)
StorePush(s, i, v) == Append(s, v)

\* s[i] = v, in place
Store(s, i, v) == [s EXCEPT ![i + 1] = v]

\* s[i]
At(s, i) == s[i + 1]

\* ------------------------------------------------------------------ the extraction contract

\* stands for a sample the delivered buffer does not have
NoSample == 0 - 1

\* data[k], or NoSample
SampleAt(data, k) == IF k < Len(data) THEN At(data, k) ELSE NoSample

\* what a callback with `c` channels has to leave in the buffers for `data`:
\* left[i] = data[i*c]; right[i] = data[i*c] for mono, data[i*c + 1] otherwise;
\* zeros from the first i with i*c >= data.len()
Extracted(data, c, n) ==
    [left_buffer  |-> [k \in 1..n |->
                          IF (k - 1) * c < Len(data) THEN SampleAt(data, (k - 1) * c) ELSE 0],
     right_buffer |-> [k \in 1..n |->
                          IF (k - 1) * c < Len(data)
                          THEN IF c = 1 THEN SampleAt(data, (k - 1) * c)
                                        ELSE SampleAt(data, (k - 1) * c + 1)
                          ELSE 0]]

\* ------------------------------------------------------------------ the mutex

\* a lock that never waits
MutexAlwaysFree == TRUE

\* Mutex::lock returns only when no guard is alive
MutexFree == ~cb_guard /\ ~tick_guard

\* the guard `audio` bound at lib.rs 135 lives to the end of the closure
\* (lib.rs 170) and at no other position of the draw function
GuardAliveAtCloneLeftOnly(pc) == pc = "clone_left"

GuardAliveAlways(pc) == TRUE

GuardAliveAt(pc) ==
    pc \in {"clone_left", "clone_right", "plan", "planning_left", "plan_right",
            "planning_right", "process", "draw"}

\* the guard of the planner is a temporary of the statement that locks it: it
\* is dropped when plan_fft_forward has returned (lib.rs 148-155)
PlannerGuardKept == TRUE

PlannerGuardAfterPlan == FALSE

\* where a panic leaves the draw function: lock().unwrap() on a poisoned mutex
\* (lib.rs 135), a slice out of range (visualizer 78-79), an index out of range
\* (visualizer 89-93)
TickPanics == {"panic_poison", "panic_slice", "panic_index"}

\* the draw function's panic unwinds out of the toolkit's callback: the process is gone
ProcessAlive == tick_pc \notin TickPanics /\ app # "exited"

\* ------------------------------------------------------------------ settings

(***************************************************************************)
(* The f32 fields of Settings are modelled on integer grids: frequencies   *)
(* and the sample rate in Hz, gain and scale_factor as whole numbers,      *)
(* interpolation_factor in units of 1/FactorDen, bar heights in whole      *)
(* units.  f32 rounds every result to its own grid; here only the product  *)
(* with interpolation_factor can leave the grid, and it is rounded toward  *)
(* zero.                                                                   *)
(***************************************************************************)

\* [fft] size of the configurations explored by SpecDraw
DrawSizes == {2, 4}

\* [fft] sample_rate: negative, zero and positive
SampleRates == {0 - 4, 0, 4}

\* [fft] min_frequency and max_frequency
Frequencies == (0 - 1)..MaxFrequency

\* [visualizer] gain
Gains == {0 - 1, 0, 1, 10}

\* [visualizer] scale_factor
ScaleFactors == {0 - 1, 0, 1, 2}

\* [visualizer] interpolation_factor, from 0 to 1 + 1/FactorDen (under a negative
\* factor, or one above 2, the bar state grows without bound)
InterpolationFactors == 0..(FactorDen + 1)

\* a configuration with one bar per channel
BaseSettings ==
    [size |-> 4, sample_rate |-> 4, min_frequency |-> 0, max_frequency |-> 1,
     gain |-> 1, scale_factor |-> 1, interpolation_factor |-> FactorDen]

\* the configuration of the run explored by Spec
SyncSettings ==
    [size |-> fft_size, sample_rate |-> 4, min_frequency |-> 0, max_frequency |-> 1,
     gain |-> 1, scale_factor |-> 1, interpolation_factor |-> FactorDen]

\* Settings::new (settings.rs 101-113) returns whatever deserializes: a file that
\* is missing, malformed or lacks a field panics in the two expect calls before
\* the application exists; no field's value is looked at
Settings_new ==
    { [BaseSettings EXCEPT !.size = n, !.sample_rate = r,
                           !.min_frequency = lo, !.max_frequency = hi] :
          n \in DrawSizes, r \in SampleRates, lo \in Frequencies, hi \in Frequencies }
    \cup
    { [BaseSettings EXCEPT !.gain = g, !.scale_factor = sc,
                           !.interpolation_factor = f] :
          g \in Gains, sc \in ScaleFactors, f \in InterpolationFactors }

\* ------------------------------------------------------------------ visualizer

\* a bar state of fft.size / 4 cells
NumBarsQuarter(s) == s.size \div 4

\* let num_bars = settings.fft.size / 2, the length previous_heights_left and
\* previous_heights_right are allocated with  (lib.rs 120-122)
NumBars(s) == s.size \div 2

\* usize::MAX, as far as the model's integers reach
UsizeMax == 2147483647

\* a quotient of f32 values cast with `as usize`: truncated toward zero, a
\* negative value or NaN (0.0 / 0.0) gives 0, +inf (x / 0.0, x > 0) gives usize::MAX
IndexCast(num, den) ==
    IF den = 0
    THEN IF num > 0 THEN UsizeMax ELSE 0
    ELSE IF num >= 0 /\ den > 0
         THEN num \div den
         ELSE IF num <= 0 /\ den < 0
              THEN (0 - num) \div (0 - den)
              ELSE 0

\* get_frequency_indices with max_index computed from min_freq
GetFrequencyIndicesMinOnly(s, n) ==
    <<IndexCast(s.min_frequency * n, s.sample_rate),
      IndexCast(s.min_frequency * n, s.sample_rate)>>

\* get_frequency_indices returning (max_index, min_index)
GetFrequencyIndicesSwapped(s, n) ==
    <<IndexCast(s.max_frequency * n, s.sample_rate),
      IndexCast(s.min_frequency * n, s.sample_rate)>>

\* get_frequency_indices(fft_size)  (visualizer 34-43)
GetFrequencyIndices(s, n) ==
    <<IndexCast(s.min_frequency * n, s.sample_rate),
      IndexCast(s.max_frequency * n, s.sample_rate)>>

\* &v[lo..hi], for lo <= hi <= v.len()
Slice(v, lo, hi) == [k \in 1..(hi - lo) |-> v[lo + k]]

RECURSIVE Log10(_)
\* log10 of a power of ten (the integer part of it otherwise)
Log10(x) == IF x < 10 THEN 0 ELSE 1 + Log10(x \div 10)

\* (x + 1e-6).log10(): NaN for x < 0, log10(1e-6) for x = 0, log10(x) to the
\* grid's precision for x >= 10
Log10Plus(x) ==
    IF x < 0 THEN [nan |-> TRUE, val |-> 0]
    ELSE IF x = 0 THEN [nan |-> FALSE, val |-> 0 - 6]
    ELSE [nan |-> FALSE, val |-> Log10(x)]

\* .max(0.0): f32::max returns the other operand when one is NaN
MaxZero(x) == IF x.nan THEN 0 ELSE IF x.val > 0 THEN x.val ELSE 0

\* the target height without its clamp at 0.0
TargetHeightUnclamped(norm, s) ==
    LET l == Log10Plus(norm * s.gain) IN (IF l.nan THEN 0 ELSE l.val) * s.scale_factor

\* magnitude = norm * gain; target_height = (magnitude + 1e-6).log10().max(0.0)
\* * scale_factor  (visualizer 86-87, 117-118)
TargetHeight(norm, s) == MaxZero(Log10Plus(norm * s.gain)) * s.scale_factor

\* a / FactorDen rounded toward zero
Quot(a) == IF a >= 0 THEN a \div FactorDen ELSE 0 - ((0 - a) \div FactorDen)

\* interpolate that returns the target whatever the factor
InterpolateSnap(current, target, factor) == target

\* interpolate that keeps the state whatever the factor
InterpolateHold(current, target, factor) == current

\* interpolate(current, target, factor) = current + (target - current) * factor
\* (fft_utils.rs 65-67)
Interpolate(current, target, factor) == current + Quot((target - current) * factor)

\* one loop of draw over a channel (visualizer 85-93, 116-124): bar i is
\* smoothed toward its target, for as many bars as previous_heights has
SmoothChannel(prev, fft, s) ==
    [k \in 1..Len(prev) |->
        IF k <= Len(fft)
        THEN Interpolate(prev[k], TargetHeight(fft[k], s), s.interpolation_factor)
        ELSE prev[k]]

\* draw (visualizer 58-145) on the two spectra, given as the norms of their bins:
\* the slices of lines 78-79 panic when min_index > max_index or max_index >
\* fft_size; the left loop panics at previous_heights_left[i] once i reaches its
\* length, the right loop does not run then
Draw(s, spectrum_left, spectrum_right, prev_left, prev_right) ==
    LET n == Len(spectrum_left)
        idx == GetFrequencyIndices(s, n)
        min_index == idx[1]
        max_index == idx[2]
    IN  IF min_index > max_index \/ max_index > n
        THEN [status |-> "panic_slice", fft_left |-> <<>>, fft_right |-> <<>>,
              left |-> prev_left, right |-> prev_right,
              drawn |-> [left |-> 0, right |-> 0]]
        ELSE LET fl == Slice(spectrum_left, min_index, max_index)
                 fr == Slice(spectrum_right, min_index, max_index)
                 num_bars == Len(fl)
             IN  IF num_bars > Len(prev_left)
                 THEN [status |-> "panic_index", fft_left |-> fl, fft_right |-> fr,
                       left |-> SmoothChannel(prev_left, fl, s), right |-> prev_right,
                       drawn |-> [left |-> Len(prev_left), right |-> 0]]
                 ELSE [status |-> "ok", fft_left |-> fl, fft_right |-> fr,
                       left |-> SmoothChannel(prev_left, fl, s),
                       right |-> SmoothChannel(prev_right, fr, s),
                       drawn |-> [left |-> num_bars, right |-> num_bars]]

\* the norms a bin of a spectrum takes
Magnitudes == {0, 10, 100}

\* the spectra of n bins the model draws from: flat ones, and one whose bins
\* alternate between two norms
Spectra(n) ==
    { VecOf(m, n) : m \in Magnitudes }
    \cup { [k \in 1..n |-> IF k % 2 = 1 THEN 10 ELSE 100] }

\* Fft::process followed by norm() (lib.rs 157-158, visualizer 86): the transform
\* is linear, a snapshot of zeros has a spectrum of zeros; of any other snapshot
\* only the shape of the result is kept
FftNorms(input) ==
    IF \A k \in 1..Len(input) : input[k] = 0
    THEN {VecOf(0, Len(input))}
    ELSE Spectra(Len(input))

\* ------------------------------------------------------------------ capture thread

\* the iteration without its else branch: nothing is stored once the data ran out
CallbackIterationNoZeroFill(a, data, ch, i) ==
    LET idx == i * ch IN
    IF idx < Len(data)
    THEN [left_buffer  |-> Store(a.left_buffer, i, At(data, idx)),
          right_buffer |-> Store(a.right_buffer, i,
                                 IF ch = 1 THEN At(data, idx) ELSE SampleAt(data, idx + 1)),
          left_stored  |-> TRUE,
          right_stored |-> TRUE,
          panicked     |-> FALSE]
    ELSE [left_buffer  |-> a.left_buffer,
          right_buffer |-> a.right_buffer,
          left_stored  |-> FALSE,
          right_stored |-> FALSE,
          panicked     |-> FALSE]

\* the iteration storing data[idx] in both buffers whatever the channel count
CallbackIterationMonoOnly(a, data, ch, i) ==
    LET idx == i * ch IN
    IF idx < Len(data)
    THEN [left_buffer  |-> Store(a.left_buffer, i, At(data, idx)),
          right_buffer |-> Store(a.right_buffer, i, At(data, idx)),
          left_stored  |-> TRUE,
          right_stored |-> TRUE,
          panicked     |-> FALSE]
    ELSE [left_buffer  |-> Store(a.left_buffer, i, 0),
          right_buffer |-> Store(a.right_buffer, i, 0),
          left_stored  |-> TRUE,
          right_stored |-> TRUE,
          panicked     |-> FALSE]

\* one pass of `for i in 0..fft_size` in the input callback (audio.rs 65-79):
\* the buffers after it, which of the two stores ran, and whether data[idx + 1]
\* was out of bounds (the store to left_buffer of line 72 has run by then)
CallbackIteration(a, data, ch, i) ==
    LET idx == i * ch IN
    IF idx < Len(data)
    THEN IF ch = 1
         THEN [left_buffer  |-> Store(a.left_buffer, i, At(data, idx)),
               right_buffer |-> Store(a.right_buffer, i, At(data, idx)),
               left_stored  |-> TRUE,
               right_stored |-> TRUE,
               panicked     |-> FALSE]
         ELSE IF ch >= 2
              THEN IF idx + 1 < Len(data)
                   THEN [left_buffer  |-> Store(a.left_buffer, i, At(data, idx)),
                         right_buffer |-> Store(a.right_buffer, i, At(data, idx + 1)),
                         left_stored  |-> TRUE,
                         right_stored |-> TRUE,
                         panicked     |-> FALSE]
                   ELSE [left_buffer  |-> Store(a.left_buffer, i, At(data, idx)),
                         right_buffer |-> a.right_buffer,
                         left_stored  |-> TRUE,
                         right_stored |-> FALSE,
                         panicked     |-> TRUE]
              ELSE [left_buffer  |-> a.left_buffer,
                    right_buffer |-> a.right_buffer,
                    left_stored  |-> FALSE,
                    right_stored |-> FALSE,
                    panicked     |-> FALSE]
    ELSE [left_buffer  |-> Store(a.left_buffer, i, 0),
          right_buffer |-> Store(a.right_buffer, i, 0),
          left_stored  |-> TRUE,
          right_stored |-> TRUE,
          panicked     |-> FALSE]

\* an error callback that resets the buffers
StreamErrorCallbackClears(a) == AudioData_new(fft_size)

\* the stream's error callback: eprintln! and nothing else
StreamErrorCallback(a) == a

\* thread::spawn body up to stream.play(): every early return leaves the thread,
\* and the stream exists only on the path that reaches the sleep loop
CaptureThreadStart ==
    /\ ProcessAlive
    /\ stream = "spawned"
    /\ \E outcome \in StartOutcomes, ch \in ChannelCounts :
          /\ stream' = outcome
          /\ channels' = IF outcome \in {"no_device", "no_config"} THEN 0 ELSE ch
    /\ UNCHANGED <<audio, poisoned, cb_guard, tick_guard, err_logged, cb_pc, cb_data,
                   cb_i, cb_seq, done, audio_src>>
    /\ UNCHANGED tick_vars
    /\ UNCHANGED <<app, draw_vars>>

\* the driver calls the input callback with a buffer of its choosing
Deliver ==
    /\ ProcessAlive
    /\ stream = "running"
    /\ cb_pc = "idle"
    /\ cb_seq < MaxCallbacks
    /\ \E data \in DataBuffers : cb_data' = data
    /\ cb_pc' = "lock"
    /\ cb_i' = 0
    /\ cb_seq' = cb_seq + 1
    /\ UNCHANGED <<audio, poisoned, cb_guard, tick_guard, stream, channels, err_logged,
                   done, audio_src>>
    /\ UNCHANGED tick_vars
    /\ UNCHANGED <<app, draw_vars>>

\* audio_data.lock().unwrap()  (audio.rs 63)
CallbackLock ==
    /\ ProcessAlive
    /\ cb_pc = "lock"
    /\ MutexFree
    /\ IF poisoned
       THEN /\ cb_pc' = "panic_poison"
            /\ UNCHANGED cb_guard
       ELSE /\ cb_pc' = "loop"
            /\ cb_guard' = TRUE
    /\ UNCHANGED <<audio, poisoned, tick_guard, stream, channels, err_logged, cb_data,
                   cb_i, cb_seq, done, audio_src>>
    /\ UNCHANGED tick_vars
    /\ UNCHANGED <<app, draw_vars>>

\* one iteration of the loop; a panic unwinds through the guard, which poisons
\* the mutex and unlocks it
CallbackIterate ==
    /\ ProcessAlive
    /\ cb_pc = "loop"
    /\ cb_i < fft_size
    /\ LET r == CallbackIteration(audio, cb_data, channels, cb_i) IN
          /\ audio' = [left_buffer |-> r.left_buffer, right_buffer |-> r.right_buffer]
          /\ audio_src' =
                [left_buffer  |-> IF r.left_stored
                                  THEN Store(audio_src.left_buffer, cb_i, cb_seq)
                                  ELSE audio_src.left_buffer,
                 right_buffer |-> IF r.right_stored
                                  THEN Store(audio_src.right_buffer, cb_i, cb_seq)
                                  ELSE audio_src.right_buffer]
          /\ IF r.panicked
             THEN /\ cb_pc' = "panic_bounds"
                  /\ poisoned' = TRUE
                  /\ cb_guard' = FALSE
                  /\ UNCHANGED cb_i
             ELSE /\ cb_i' = cb_i + 1
                  /\ UNCHANGED <<cb_pc, poisoned, cb_guard>>
    /\ UNCHANGED <<tick_guard, stream, channels, err_logged, cb_data, cb_seq, done>>
    /\ UNCHANGED tick_vars
    /\ UNCHANGED <<app, draw_vars>>

\* the loop is over: the closure returns and the guard is dropped
CallbackReturn ==
    /\ ProcessAlive
    /\ cb_pc = "loop"
    /\ cb_i = fft_size
    /\ cb_pc' = "idle"
    /\ cb_guard' = FALSE
    /\ cb_data' = <<>>
    /\ done' = Extracted(cb_data, channels, fft_size)
    /\ UNCHANGED <<audio, poisoned, tick_guard, stream, channels, err_logged,
                   cb_i, cb_seq, audio_src>>
    /\ UNCHANGED tick_vars
    /\ UNCHANGED <<app, draw_vars>>

\* the device reports a stream error: the error callback runs (audio.rs 82-84)
StreamError ==
    /\ ProcessAlive
    /\ stream = "running"
    /\ audio' = StreamErrorCallback(audio)
    /\ err_logged' = TRUE
    /\ UNCHANGED <<poisoned, cb_guard, tick_guard, stream, channels, cb_pc, cb_data,
                   cb_i, cb_seq, done, audio_src>>
    /\ UNCHANGED tick_vars
    /\ UNCHANGED <<app, draw_vars>>

\* ------------------------------------------------------------------ draw function

\* the 30 ms timer queued a redraw and the toolkit calls the draw function
TickStart ==
    /\ ProcessAlive
    /\ tick_pc = "idle"
    /\ tick_pc' = "lock"
    /\ UNCHANGED <<audio, poisoned, cb_guard, tick_guard, audio_src, planner_guard,
                   input_left, input_right, input_left_src, input_right_src>>
    /\ UNCHANGED capture_vars
    /\ UNCHANGED <<app, draw_vars>>

\* let audio = audio_data_clone.lock().unwrap();  (lib.rs 135)
TickLock ==
    /\ ProcessAlive
    /\ tick_pc = "lock"
    /\ MutexFree
    /\ IF poisoned
       THEN /\ tick_pc' = "panic_poison"
            /\ UNCHANGED tick_guard
       ELSE /\ tick_pc' = "clone_left"
            /\ tick_guard' = TRUE
    /\ UNCHANGED <<audio, poisoned, cb_guard, audio_src, planner_guard,
                   input_left, input_right, input_left_src, input_right_src>>
    /\ UNCHANGED capture_vars
    /\ UNCHANGED <<app, draw_vars>>

\* let input_left = audio.left_buffer.clone();  (lib.rs 136)
TickCloneLeft ==
    /\ ProcessAlive
    /\ tick_pc = "clone_left"
    /\ input_left' = audio.left_buffer
    /\ input_left_src' = audio_src.left_buffer
    /\ tick_pc' = "clone_right"
    /\ tick_guard' = GuardAliveAt("clone_right")
    /\ UNCHANGED <<audio, poisoned, cb_guard, audio_src, planner_guard,
                   input_right, input_right_src>>
    /\ UNCHANGED capture_vars
    /\ UNCHANGED <<app, draw_vars>>

\* let input_right = audio.right_buffer.clone();  (lib.rs 137)
TickCloneRight ==
    /\ ProcessAlive
    /\ tick_pc = "clone_right"
    /\ input_right' = audio.right_buffer
    /\ input_right_src' = audio_src.right_buffer
    /\ tick_pc' = "plan"
    /\ UNCHANGED <<audio, poisoned, cb_guard, tick_guard, audio_src, planner_guard,
                   input_left, input_left_src>>
    /\ UNCHANGED capture_vars
    /\ UNCHANGED <<app, draw_vars>>

\* the complex copies, then planner_clone.lock().unwrap() of the statement
\* that plans the left transform, and later of the one that plans the right
\* transform: the draw function waits until the planner's mutex is free
\* (lib.rs 139-149, 152-153)
TickPlanLock ==
    /\ ProcessAlive
    /\ tick_pc \in {"plan", "plan_right"}
    /\ ~planner_guard
    /\ planner_guard' = TRUE
    /\ tick_pc' = IF tick_pc = "plan" THEN "planning_left" ELSE "planning_right"
    /\ UNCHANGED <<audio, poisoned, cb_guard, tick_guard, audio_src,
                   input_left, input_right, input_left_src, input_right_src>>
    /\ UNCHANGED capture_vars
    /\ UNCHANGED <<app, draw_vars>>

\* .plan_fft_forward(size); the statement ends and with it the temporary
\* guard of the planner  (lib.rs 150-151, 154-155)
TickPlanUnlock ==
    /\ ProcessAlive
    /\ tick_pc \in {"planning_left", "planning_right"}
    /\ planner_guard' = PlannerGuardAfterPlan
    /\ tick_pc' = IF tick_pc = "planning_left" THEN "plan_right" ELSE "process"
    /\ UNCHANGED <<audio, poisoned, cb_guard, tick_guard, audio_src,
                   input_left, input_right, input_left_src, input_right_src>>
    /\ UNCHANGED capture_vars
    /\ UNCHANGED <<app, draw_vars>>

\* fft_left.process / fft_right.process  (lib.rs 157-158)
TickProcess ==
    /\ ProcessAlive
    /\ tick_pc = "process"
    /\ tick_pc' = "draw"
    /\ UNCHANGED <<audio, poisoned, cb_guard, tick_guard, audio_src, planner_guard,
                   input_left, input_right, input_left_src, input_right_src>>
    /\ UNCHANGED capture_vars
    /\ UNCHANGED <<app, draw_vars>>

\* grid and visualizer draw, then the closure returns: its locals, the guard
\* `audio` among them, are dropped here  (lib.rs 160-170)
TickDraw ==
    /\ ProcessAlive
    /\ tick_pc = "draw"
    /\ \E spectrum_left \in FftNorms(input_left), spectrum_right \in FftNorms(input_right) :
          \E r \in {Draw(settings, spectrum_left, spectrum_right,
                        previous_heights_left, previous_heights_right)} :
              /\ tick_pc' = IF r.status = "ok" THEN "idle" ELSE r.status
              /\ poisoned' = (poisoned \/ r.status # "ok")
              /\ previous_heights_left' = r.left
              /\ previous_heights_right' = r.right
              /\ fft_left' = r.fft_left
              /\ fft_right' = r.fft_right
              /\ drawn' = r.drawn
    /\ tick_guard' = GuardAliveAt(tick_pc')
    /\ input_left' = <<>>
    /\ input_right' = <<>>
    /\ input_left_src' = <<>>
    /\ input_right_src' = <<>>
    /\ UNCHANGED <<audio, cb_guard, audio_src, planner_guard, app, settings>>
    /\ UNCHANGED capture_vars

\* the key handler of the window (lib.rs 174-185): Q sends the exit signal; it
\* runs on the main loop, between two draws
KeyPressed ==
    /\ ProcessAlive
    /\ tick_pc = "idle"
    /\ app = "running"
    /\ app' = "quit"
    /\ UNCHANGED <<audio, poisoned, cb_guard, tick_guard, audio_src>>
    /\ UNCHANGED <<capture_vars, tick_vars, draw_vars>>

\* handle_exit's thread (lib.rs 197-206): rx.changed() has returned,
\* std::process::exit(0) ends every thread where it stands
ProcessExit ==
    /\ ProcessAlive
    /\ app = "quit"
    /\ app' = "exited"
    /\ UNCHANGED <<audio, poisoned, cb_guard, tick_guard, audio_src>>
    /\ UNCHANGED <<capture_vars, tick_vars, draw_vars>>

\* ------------------------------------------------------------------ callback and draw as single steps

RECURSIVE RunCallback(_, _, _, _, _)
\* the passes i, i+1, ... n-1 of the input callback's loop (audio.rs 64-80),
\* up to the pass that panics
RunCallback(a, data, ch, i, n) ==
    IF i = n
    THEN [left_buffer |-> a.left_buffer, right_buffer |-> a.right_buffer,
          panicked |-> FALSE]
    ELSE LET r == CallbackIteration(a, data, ch, i) IN
         IF r.panicked
         THEN [left_buffer |-> r.left_buffer, right_buffer |-> r.right_buffer,
               panicked |-> TRUE]
         ELSE RunCallback([left_buffer |-> r.left_buffer,
                           right_buffer |-> r.right_buffer], data, ch, i + 1, n)

\* the buffers delivered in SpecDraw: nothing, or MaxDataLen equal samples
DrawData == {<<>>} \cup { VecOf(v, MaxDataLen) : v \in Samples }

\* one whole input callback (audio.rs 62-81), the mutex held throughout
DrawCapture ==
    /\ ProcessAlive
    /\ stream = "running"
    /\ cb_pc = "idle"
    /\ cb_seq < MaxCallbacks
    /\ cb_seq' = cb_seq + 1
    /\ IF poisoned
       THEN /\ cb_pc' = "panic_poison"
            /\ UNCHANGED <<audio, poisoned>>
       ELSE \E data \in DrawData :
               \E r \in {RunCallback(audio, data, channels, 0, settings.size)} :
                   /\ audio' = [left_buffer |-> r.left_buffer,
                                right_buffer |-> r.right_buffer]
                   /\ poisoned' = r.panicked
                   /\ cb_pc' = IF r.panicked THEN "panic_bounds" ELSE "idle"
    /\ UNCHANGED <<cb_guard, tick_guard, audio_src, stream, channels, err_logged,
                   cb_data, cb_i, done, app>>
    /\ UNCHANGED <<tick_vars, draw_vars>>

\* one whole run of the draw function (lib.rs 131-170): lock, clone, transform,
\* draw, return
DrawTick ==
    /\ ProcessAlive
    /\ tick_pc = "idle"
    /\ IF poisoned
       THEN /\ tick_pc' = "panic_poison"
            /\ UNCHANGED <<poisoned, draw_vars>>
       ELSE \E spectrum_left \in FftNorms(audio.left_buffer),
               spectrum_right \in FftNorms(audio.right_buffer) :
               \E r \in {Draw(settings, spectrum_left, spectrum_right,
                             previous_heights_left, previous_heights_right)} :
                   /\ tick_pc' = IF r.status = "ok" THEN "idle" ELSE r.status
                   /\ poisoned' = (r.status # "ok")
                   /\ previous_heights_left' = r.left
                   /\ previous_heights_right' = r.right
                   /\ fft_left' = r.fft_left
                   /\ fft_right' = r.fft_right
                   /\ drawn' = r.drawn
                   /\ UNCHANGED settings
    /\ UNCHANGED <<audio, cb_guard, tick_guard, audio_src, app, planner_guard,
                   input_left, input_right, input_left_src, input_right_src>>
    /\ UNCHANGED capture_vars

\* ------------------------------------------------------------------ specification

\* run_application: the buffers are allocated, the capture thread is spawned
Init ==
    /\ audio = AudioData_new(fft_size)
    /\ audio_src = AudioData_new(fft_size)
    /\ poisoned = FALSE
    /\ cb_guard = FALSE
    /\ tick_guard = FALSE
    /\ stream = "spawned"
    /\ channels = 0
    /\ err_logged = FALSE
    /\ cb_pc = "idle"
    /\ cb_data = <<>>
    /\ cb_i = 0
    /\ cb_seq = 0
    /\ done = AudioData_new(fft_size)
    /\ tick_pc = "idle"
    /\ planner_guard = FALSE
    /\ input_left = <<>>
    /\ input_right = <<>>
    /\ input_left_src = <<>>
    /\ input_right_src = <<>>
    /\ app = "running"
    /\ settings = SyncSettings
    /\ previous_heights_left = VecOf(0, NumBars(settings))
    /\ previous_heights_right = VecOf(0, NumBars(settings))
    /\ fft_left = <<>>
    /\ fft_right = <<>>
    /\ drawn = [left |-> 0, right |-> 0]

Next ==
    \/ CaptureThreadStart
    \/ Deliver
    \/ CallbackLock
    \/ CallbackIterate
    \/ CallbackReturn
    \/ StreamError
    \/ TickStart
    \/ TickLock
    \/ TickCloneLeft
    \/ TickCloneRight
    \/ TickPlanLock
    \/ TickPlanUnlock
    \/ TickProcess
    \/ TickDraw

Spec == Init /\ [][Next]_vars

\* the steps of the callback once it owns the guard
CallbackStep == CallbackIterate \/ CallbackReturn

\* the steps of the draw function once it owns the guard
TickStep ==
    \/ TickCloneLeft
    \/ TickCloneRight
    \/ TickPlanLock
    \/ TickPlanUnlock
    \/ TickProcess
    \/ TickDraw

\* the same run under a fair scheduler: a context that owns the guard takes
\* its next step, and a context that waits for the buffers' mutex gets it if
\* the mutex is free again and again. The draw function runs once per 30 ms
\* timer tick (lib.rs 188-194) and the callback once per delivered buffer, so
\* each leaves the mutex free for the other between two of its runs; neither
\* the delivery of a buffer nor the timer is under any obligation to happen
Fairness ==
    /\ WF_vars(CallbackStep)
    /\ WF_vars(TickStep)
    /\ SF_vars(CallbackLock)
    /\ SF_vars(TickLock)

\* run_application once the capture thread's stream plays, whatever the
\* channel count of the device
InitFair ==
    /\ audio = AudioData_new(fft_size)
    /\ audio_src = AudioData_new(fft_size)
    /\ poisoned = FALSE
    /\ cb_guard = FALSE
    /\ tick_guard = FALSE
    /\ stream = "running"
    /\ channels \in ChannelCounts
    /\ err_logged = FALSE
    /\ cb_pc = "idle"
    /\ cb_data = <<>>
    /\ cb_i = 0
    /\ cb_seq = 0
    /\ done = AudioData_new(fft_size)
    /\ tick_pc = "idle"
    /\ planner_guard = FALSE
    /\ input_left = <<>>
    /\ input_right = <<>>
    /\ input_left_src = <<>>
    /\ input_right_src = <<>>
    /\ app = "running"
    /\ settings = SyncSettings
    /\ previous_heights_left = VecOf(0, NumBars(settings))
    /\ previous_heights_right = VecOf(0, NumBars(settings))
    /\ fft_left = <<>>
    /\ fft_right = <<>>
    /\ drawn = [left |-> 0, right |-> 0]

\* the two contexts that use the buffers' mutex
NextFair ==
    \/ Deliver
    \/ CallbackLock
    \/ CallbackIterate
    \/ CallbackReturn
    \/ TickStart
    \/ TickLock
    \/ TickCloneLeft
    \/ TickCloneRight
    \/ TickPlanLock
    \/ TickPlanUnlock
    \/ TickProcess
    \/ TickDraw

SpecFair == InitFair /\ [][NextFair]_vars /\ Fairness

NextShutdown ==
    \/ Next
    \/ KeyPressed
    \/ ProcessExit

\* the same run with the window's Q key and the exit thread
SpecShutdown == Init /\ [][NextShutdown]_vars

\* run_application with any configuration Settings::new returns, once the
\* capture thread's stream plays
InitDraw ==
    /\ settings \in Settings_new
    /\ audio = AudioData_new(settings.size)
    /\ audio_src = AudioData_new(settings.size)
    /\ poisoned = FALSE
    /\ cb_guard = FALSE
    /\ tick_guard = FALSE
    /\ stream = "running"
    /\ channels \in ChannelCounts
    /\ err_logged = FALSE
    /\ cb_pc = "idle"
    /\ cb_data = <<>>
    /\ cb_i = 0
    /\ cb_seq = 0
    /\ done = AudioData_new(settings.size)
    /\ tick_pc = "idle"
    /\ planner_guard = FALSE
    /\ input_left = <<>>
    /\ input_right = <<>>
    /\ input_left_src = <<>>
    /\ input_right_src = <<>>
    /\ app = "running"
    /\ previous_heights_left = VecOf(0, NumBars(settings))
    /\ previous_heights_right = VecOf(0, NumBars(settings))
    /\ fft_left = <<>>
    /\ fft_right = <<>>
    /\ drawn = [left |-> 0, right |-> 0]

NextDraw ==
    \/ DrawCapture
    \/ DrawTick

\* the callback and the draw function as single steps, which the mutex makes
\* them for each other, under every configuration
SpecDraw == InitDraw /\ [][NextDraw]_vars

\* ------------------------------------------------------------------ properties

\* the draw function has cloned left_buffer / right_buffer
LeftCloned ==
    tick_pc \in {"clone_right", "plan", "planning_left", "plan_right",
                 "planning_right", "process", "draw"}

RightCloned ==
    tick_pc \in {"plan", "planning_left", "plan_right", "planning_right",
                 "process", "draw"}

\* the transform, the smoothing and the drawing are what remains to run
AfterCopy == tick_pc \in {"process", "draw"}

\* the deliveries whose callback has returned; 0 is the initial zero fill
CompletedWrites ==
    {0} \cup {k \in 1..cb_seq : k < cb_seq \/ cb_pc = "idle"}

\* every cell of a cloned buffer was stored by one and the same completed write
OneCompletedWrite(src) ==
    \E k \in CompletedWrites : \A j \in 1..Len(src) : src[j] = k

\* the callback's loop is over, normally or by the panic of line 73
CallbackEnded ==
    \/ cb_pc = "loop" /\ cb_i = fft_size
    \/ cb_pc = "panic_bounds"

\* the capture thread returned before its stream played
StartFailed == stream \in {"no_device", "no_config", "build_failed", "play_failed"}

\* C1: a snapshot is never a mix of two callbacks' writes: each of input_left and
\* input_right holds, in all its cells, what one completed callback (or the
\* initial zero fill) stored.
C1_SnapshotNeverMixed ==
    /\ LeftCloned => OneCompletedWrite(input_left_src)
    /\ RightCloned => OneCompletedWrite(input_right_src)

\* C1 witness: a snapshot of the second delivery, taken while the third waits for the lock
C1_Witness ==
    /\ RightCloned
    /\ cb_pc = "lock"
    /\ cb_seq = 3
    /\ \A j \in 1..fft_size : input_left_src[j] = 2 /\ input_right_src[j] = 2

\* C2 (as claimed): the draw function owns the guard only while it clones; the
\* guard is gone when the transform, the smoothing and the drawing run.
C2_LockReleasedAfterCopy == AfterCopy => ~tick_guard

\* C3 (as claimed): no callback waits for the lock while the draw function is in
\* its transform, smoothing or drawing phase.
C3_CallbackNeverWaitsOnTick == ~(cb_pc = "lock" /\ ~MutexFree /\ AfterCopy)

\* C4: latest value wins: a snapshot equals the extraction of the most recently
\* completed callback (zeros if none), and a callback whose loop has finished has
\* stored every cell of both buffers.
C4_LatestValueWins ==
    /\ LeftCloned => input_left = done.left_buffer
    /\ RightCloned => input_right = done.right_buffer
    /\ (cb_pc = "loop" /\ cb_i = fft_size) =>
          \A j \in 1..fft_size :
             audio_src.left_buffer[j] = cb_seq /\ audio_src.right_buffer[j] = cb_seq

\* C4 witness: three callbacks returned, the last one short, and the snapshot is its
\* extraction: zeros in the tail where the earlier ones had stored samples
C4_Witness ==
    /\ RightCloned
    /\ cb_seq = 3
    /\ cb_pc = "idle"
    /\ input_left[1] # 0
    /\ input_left[fft_size] = 0
    /\ input_left = done.left_buffer
    /\ input_right = done.right_buffer

\* C5 (as claimed): with two or more channels the extraction never reads an index
\* >= data.len(), whatever the length of the buffer.
C5_ExtractionInBounds == channels >= 2 => cb_pc # "panic_bounds"

\* C6: after a callback, for every i < fft_size with i*c < data.len():
\* left[i] = data[i*c]; right[i] = data[i*c] in mono, and right[i] = data[i*c + 1]
\* with two or more channels (where the buffer has that sample).
C6_ExtractionValues ==
    CallbackEnded =>
       \A i \in 0..(fft_size - 1) :
          i * channels < Len(cb_data) =>
             /\ At(audio.left_buffer, i) = At(cb_data, i * channels)
             /\ channels = 1 => At(audio.right_buffer, i) = At(cb_data, i * channels)
             /\ (channels >= 2 /\ i * channels + 1 < Len(cb_data)) =>
                   At(audio.right_buffer, i) = At(cb_data, i * channels + 1)

\* C6 witness: a stereo callback has stored fft_size full frames whose two samples differ
C6_Witness ==
    /\ cb_pc = "loop"
    /\ cb_i = fft_size
    /\ channels >= 2
    /\ Len(cb_data) >= fft_size * channels
    /\ \A j \in 1..fft_size : audio.left_buffer[j] # audio.right_buffer[j]

\* C7 (as claimed): a delivery of fewer than fft_size frames is no error, and from
\* the first i with i*channels >= data.len() both buffers hold 0.0.
C7_ShortDeliveryZeroFilled ==
    (CallbackEnded /\ Len(cb_data) < fft_size * channels) =>
       /\ cb_pc # "panic_bounds"
       /\ \A i \in 0..(fft_size - 1) :
             i * channels >= Len(cb_data) =>
                At(audio.left_buffer, i) = 0 /\ At(audio.right_buffer, i) = 0

\* C8: left_buffer and right_buffer have exactly fft_size elements in every
\* reachable state.
C8_BufferLengthFixed ==
    /\ DOMAIN audio.left_buffer = 1..fft_size
    /\ DOMAIN audio.right_buffer = 1..fft_size

\* C8 witness: callbacks have stored samples and a tick is under way
C8_Witness ==
    /\ cb_seq >= 2
    /\ cb_pc = "loop"
    /\ cb_i = 1
    /\ tick_pc = "lock"
    /\ audio.left_buffer[1] # 0

\* C9: the error callback and a failed start leave the shared buffer, the mutex
\* and the draw function as they are; after a failed start every tick reads the
\* zero fill and none fails; after a stream error a snapshot is still the last
\* completely written buffer, and no tick fails unless a callback panicked.
C9_StreamErrorLeavesBuffer ==
    /\ [][StreamError => UNCHANGED <<audio, poisoned, cb_guard, tick_guard, tick_vars>>]_vars
    /\ [](StartFailed =>
            /\ audio = AudioData_new(fft_size)
            /\ ~poisoned
            /\ tick_pc # "panic_poison"
            /\ LeftCloned => input_left = VecOf(0, fft_size)
            /\ RightCloned => input_right = VecOf(0, fft_size))
    /\ []((err_logged /\ RightCloned) =>
            /\ input_left = done.left_buffer
            /\ input_right = done.right_buffer)
    /\ [](tick_pc = "panic_poison" => cb_pc = "panic_bounds")

\* C9 witness: after a stream error a tick holds the samples of the last callback
C9_Witness ==
    /\ err_logged
    /\ tick_pc = "draw"
    /\ cb_seq >= 1
    /\ input_left[1] # 0
    /\ input_left = audio.left_buffer
    /\ input_right = audio.right_buffer

\* C10 (as claimed): no failure of the capture context, neither a stream error nor
\* a callback that fails holding the lock, makes a later tick fail: the draw
\* function always gets its guard.
C10_CaptureFailureContained ==
    (err_logged \/ cb_pc \in {"panic_bounds", "panic_poison"}) => tick_pc # "panic_poison"


\* the capture thread left through one of its three early returns: no default
\* input device, no default input configuration, build_input_stream failed
StartAborted == stream \in {"no_device", "no_config", "build_failed"}

\* the typed errors a failed start-up is to end with
StartupErrors == {"DeviceUnavailable", "ConfigurationError"}

\* C11: when the capture thread finds no default input device, no input
\* configuration, or cannot build the stream, start-up ends with a typed error
\* (DeviceUnavailable or ConfigurationError) at the caller of run_application,
\* and no draw starts from then on.
C11_StartFailureSurfaced ==
    /\ [](StartAborted => app \in StartupErrors)
    /\ [][(StartAborted /\ tick_pc = "idle") => tick_pc' = "idle"]_vars


\* the constraints a configuration has to meet: fft.size > 0, sample_rate > 0,
\* 0 <= min_frequency < max_frequency <= sample_rate / 2, and
\* 0 <= interpolation_factor <= 1
ValidSettings(s) ==
    /\ s.size > 0
    /\ s.sample_rate > 0
    /\ 0 <= s.min_frequency
    /\ s.min_frequency < s.max_frequency
    /\ 2 * s.max_frequency <= s.sample_rate
    /\ 0 <= s.interpolation_factor
    /\ s.interpolation_factor <= FactorDen

\* C12: a configuration that violates a constraint is rejected when it is loaded:
\* the application never runs with one, and no draw fails over its values.
C12_InvalidSettingsRejected ==
    /\ ValidSettings(settings)
    /\ tick_pc \notin {"panic_slice", "panic_index"}


\* a callback or a draw is inside its critical section
InCriticalSection == cb_guard \/ tick_guard

\* C13: once shutdown is signalled the process does not end while the callback
\* or the draw function holds the buffer lock: a critical section in flight
\* runs to its end first.
C13_ShutdownAwaitsCriticalSection == app = "exited" => ~InCriticalSection


\* the indices draw derives from the configuration: fft_left.len() is fft.size
MinIndex == GetFrequencyIndices(settings, settings.size)[1]

MaxIndex == GetFrequencyIndices(settings, settings.size)[2]

\* a panic of draw itself, over the values of the configuration
DrawFailed == tick_pc \in {"panic_slice", "panic_index"}

\* no bar of either channel has left 0.0
BarsAtZero ==
    /\ \A k \in 1..Len(previous_heights_left) : previous_heights_left[k] = 0
    /\ \A k \in 1..Len(previous_heights_right) : previous_heights_right[k] = 0

\* C14: when max_index <= min_index, max_index < min_index included, a draw
\* makes no bar for either channel, changes no bar state and ends without error.
C14_EmptyRangeDrawsNothing ==
    MaxIndex <= MinIndex =>
        /\ ~DrawFailed
        /\ drawn = [left |-> 0, right |-> 0]
        /\ BarsAtZero


\* a step of SpecDraw in which a draw ran to its end: the step is no callback,
\* the lock was not poisoned
DrawTickTaken == cb_seq' = cb_seq /\ ~poisoned

\* floor(freq * fft_size / sample_rate), for freq >= 0 and sample_rate > 0
FloorIndex(freq, s) == (freq * s.size) \div s.sample_rate

\* the configuration of the claim's example
ExampleSettings ==
    [BaseSettings EXCEPT !.size = 1024, !.sample_rate = 48000,
                         !.min_frequency = 20, !.max_frequency = 20000]

\* C15: under a valid configuration min_index = floor(min_frequency * fft_size /
\* sample_rate) and max_index = floor(max_frequency * fft_size / sample_rate),
\* and a draw passes exactly max_index - min_index bars per channel; fft_size
\* 1024 at 48000 Hz with the range 20..20000 Hz gives the indices 0 and 426.
C15_IndexFormulaAndBarCount ==
    /\ [](ValidSettings(settings) =>
            /\ MinIndex = FloorIndex(settings.min_frequency, settings)
            /\ MaxIndex = FloorIndex(settings.max_frequency, settings))
    /\ [](GetFrequencyIndices(ExampleSettings, ExampleSettings.size) = <<0, 426>>)
    /\ [][(DrawTickTaken /\ ValidSettings(settings)) =>
            drawn' = [left |-> MaxIndex - MinIndex, right |-> MaxIndex - MinIndex]]_vars

\* a draw has passed a bar under a valid configuration whose min_frequency *
\* fft_size / sample_rate is not a whole number
C15_Witness ==
    /\ ValidSettings(settings)
    /\ (settings.min_frequency * settings.size) % settings.sample_rate # 0
    /\ drawn.left >= 1
    /\ drawn.left = MaxIndex - MinIndex
    /\ drawn.right = drawn.left


\* min_index under the state's fft.size and sample_rate, were min_frequency f
MinIndexAt(f) ==
    GetFrequencyIndices([settings EXCEPT !.min_frequency = f], settings.size)[1]

\* max_index under the state's fft.size and sample_rate, were max_frequency f
MaxIndexAt(f) ==
    GetFrequencyIndices([settings EXCEPT !.max_frequency = f], settings.size)[2]

\* C16: with fft_size and sample_rate fixed (sample_rate a rate, above 0) the
\* index mapping is monotonic: f1 <= f2 gives index(f1) <= index(f2); raising
\* max_frequency never lowers max_index; and min_index <= max_index whenever
\* min_frequency <= max_frequency.
C16_IndexMappingMonotonic ==
    settings.sample_rate > 0 =>
        /\ \A f1, f2 \in Frequencies :
              f1 <= f2 => /\ MinIndexAt(f1) <= MinIndexAt(f2)
                          /\ MaxIndexAt(f1) <= MaxIndexAt(f2)
        /\ \A f \in Frequencies :
              settings.max_frequency <= f => MaxIndex <= MaxIndexAt(f)
        /\ settings.min_frequency <= settings.max_frequency => MinIndex <= MaxIndex

\* a draw has used indices that differ, of frequencies that differ
C16_Witness ==
    /\ settings.sample_rate > 0
    /\ settings.min_frequency < settings.max_frequency
    /\ MinIndex < MaxIndex
    /\ MaxIndex < MaxIndexAt(MaxFrequency)
    /\ drawn.left = MaxIndex - MinIndex


\* interpolation_factor lies in [0, 1]
FactorInRange ==
    0 <= settings.interpolation_factor /\ settings.interpolation_factor <= FactorDen

\* C17: from the all-zero bar state, after any number of draws every smoothed
\* bar height of both channels is >= 0.0, whatever the gain and the
\* scale_factor, for interpolation_factor in [0, 1] and finite non-negative
\* bin magnitudes.
C17_BarHeightsNonNegative ==
    FactorInRange =>
        /\ \A k \in 1..Len(previous_heights_left) : previous_heights_left[k] >= 0
        /\ \A k \in 1..Len(previous_heights_right) : previous_heights_right[k] >= 0


\* C18: with interpolation_factor = 0.0 no bar state changes after its
\* initialization: every bar stays at 0.0 whatever targets the draws bring.
C18_ZeroFactorFreezesBars ==
    settings.interpolation_factor = 0 => BarsAtZero

\* under interpolation_factor = 0.0 a draw has met a target off zero on each channel
C18_Witness ==
    /\ settings.interpolation_factor = 0
    /\ drawn.left >= 1
    /\ drawn.right >= 1
    /\ TargetHeight(fft_left[1], settings) # 0
    /\ TargetHeight(fft_right[1], settings) # 0
    /\ BarsAtZero

\* C19: with interpolation_factor = 1.0, after a draw the state of each bar it
\* passed equals the target that draw computed for the bar, whatever the state
\* was before.
C19_UnitFactorSnapsToTarget ==
    settings.interpolation_factor = FactorDen =>
        /\ \A k \in 1..drawn.left :
              previous_heights_left[k] = TargetHeight(fft_left[k], settings)
        /\ \A k \in 1..drawn.right :
              previous_heights_right[k] = TargetHeight(fft_right[k], settings)

\* under interpolation_factor = 1.0 the last draw left two channels at two
\* different targets, the left one back at 0.0 while the buffer holds samples
C19_Witness ==
    /\ settings.interpolation_factor = FactorDen
    /\ drawn.left >= 1
    /\ drawn.right >= 1
    /\ settings.scale_factor # 0
    /\ previous_heights_left[1] = 0
    /\ fft_left[1] = 0
    /\ previous_heights_right[1] = TargetHeight(fft_right[1], settings)
    /\ previous_heights_right[1] # 0

\* every cell of both buffers is 0.0
BuffersAtZero ==
    /\ \A k \in 1..Len(audio.left_buffer) : audio.left_buffer[k] = 0
    /\ \A k \in 1..Len(audio.right_buffer) : audio.right_buffer[k] = 0

\* C20: a draw over a snapshot of zeros finds the magnitude 0.0 in every bin it
\* selects and computes the target 0.0 for every bar of both channels, whatever
\* the gain and the scale_factor; and while no callback has written the buffer
\* every bar state stays at 0.0.
C20_SilenceDrawsZero ==
    /\ [][(DrawTickTaken /\ BuffersAtZero) =>
            /\ \A k \in 1..Len(fft_left') :
                  fft_left'[k] = 0 /\ TargetHeight(fft_left'[k], settings) = 0
            /\ \A k \in 1..Len(fft_right') :
                  fft_right'[k] = 0 /\ TargetHeight(fft_right'[k], settings) = 0]_vars
    /\ [](cb_seq = 0 => BarsAtZero)

\* draws have run over the untouched buffer under a gain and a scale_factor
\* that are neither 0 nor 1, with a factor that moves the bars
C20_Witness ==
    /\ cb_seq = 0
    /\ settings.gain = 10
    /\ settings.scale_factor = 2
    /\ settings.interpolation_factor > 0
    /\ drawn.left >= 1
    /\ drawn.right >= 1
    /\ BarsAtZero


\* C21: at all times the bar state of each channel has one cell per selected
\* bar: its length is max_index - min_index.
C21_BarStateLengthIsBarCount ==
    ValidSettings(settings) =>
        /\ Len(previous_heights_left) = MaxIndex - MinIndex
        /\ Len(previous_heights_right) = MaxIndex - MinIndex

\* fft_size > 0 and 0 <= min_frequency < max_frequency <= sample_rate / 2
ValidRange(s) ==
    /\ s.size > 0
    /\ 0 <= s.min_frequency
    /\ s.min_frequency < s.max_frequency
    /\ 2 * s.max_frequency <= s.sample_rate

\* C22: under a configuration with fft_size > 0 and 0 <= min_frequency <
\* max_frequency <= sample_rate / 2 no draw indexes out of bounds: min_index <=
\* max_index <= fft_size for the slices of the spectra, and max_index -
\* min_index <= fft_size / 2 (integer division), the length each channel's bar
\* state was allocated with.
C22_IndicesInBounds ==
    ValidRange(settings) =>
        /\ MinIndex <= MaxIndex
        /\ MaxIndex <= settings.size
        /\ Len(previous_heights_left) = settings.size \div 2
        /\ Len(previous_heights_right) = settings.size \div 2
        /\ MaxIndex - MinIndex <= Len(previous_heights_left)
        /\ MaxIndex - MinIndex <= Len(previous_heights_right)
        /\ ~DrawFailed

\* a draw has passed as many bars as the bar state has cells, up to the last
\* bin the range may reach
C22_Witness ==
    /\ ValidRange(settings)
    /\ 2 * settings.max_frequency = settings.sample_rate
    /\ MaxIndex - MinIndex = Len(previous_heights_left)
    /\ drawn.left = Len(previous_heights_left)
    /\ drawn.right = Len(previous_heights_right)
    /\ drawn.left >= 2


\* C23: the left and the right sequence of a snapshot were written by one and
\* the same callback (or are both the initial zero fill): no draw pairs the
\* left channel of one callback with the right channel of another.
C23_SnapshotPairsOneCallback ==
    RightCloned =>
        \E k \in CompletedWrites :
            /\ \A j \in 1..Len(input_left_src) : input_left_src[j] = k
            /\ \A j \in 1..Len(input_right_src) : input_right_src[j] = k

\* a snapshot of a stereo delivery that followed another one: its two
\* sequences differ and both stem from the second callback, a third one
\* waiting for the lock
C23_Witness ==
    /\ RightCloned
    /\ channels >= 2
    /\ cb_seq = 3
    /\ cb_pc = "lock"
    /\ input_left # input_right
    /\ \A j \in 1..Len(input_left_src) : input_left_src[j] = 2
    /\ \A j \in 1..Len(input_right_src) : input_right_src[j] = 2


\* the callback waits for the buffers' mutex, which the draw function holds
CallbackWaits == cb_pc = "lock" /\ tick_guard

\* the draw function waits for the buffers' mutex, which the callback holds
TickWaitsForBuffers == tick_pc = "lock" /\ cb_guard

\* the draw function waits for the planner's mutex, which is held
TickWaitsForPlanner == tick_pc \in {"plan", "plan_right"} /\ planner_guard

\* C24: the callback and the draw function never wait for each other. The
\* planner's mutex is only held while the buffers' mutex is held by the draw
\* function, it is free whenever the draw function is about to lock it, the
\* callback never holds it, and whichever context holds the buffers' mutex
\* while the other waits for it can take a step.
C24_NoLockCycle ==
    /\ ~(CallbackWaits /\ (TickWaitsForBuffers \/ TickWaitsForPlanner))
    /\ planner_guard => tick_guard
    /\ tick_pc \in {"plan", "plan_right"} => ~planner_guard
    /\ cb_guard => ~planner_guard
    /\ CallbackWaits => ENABLED TickStep
    /\ TickWaitsForBuffers => ENABLED CallbackStep

\* C24 witness: the callback waits for the buffers while the draw function
\* holds both mutexes, planning the right transform
C24_Witness ==
    /\ CallbackWaits
    /\ planner_guard
    /\ tick_pc = "planning_right"


\* C25: under fair scheduling every callback that has started gets the
\* buffers' mutex, completes its write and returns, and every draw that has
\* started gets the mutex and returns: at any time the callback will be idle
\* again and the draw function will be idle again, unless a callback or a
\* draw has failed with the guard in hand (which is what poisons the mutex).
C25_NoStarvation ==
    /\ []<>(cb_pc = "idle" \/ poisoned)
    /\ []<>(tick_pc = "idle" \/ poisoned)

\* C25 witness: the draw function waits for the mutex while the second
\* callback, which had a whole draw before it, finishes its write
C25_Witness ==
    /\ TickWaitsForBuffers
    /\ ~poisoned
    /\ cb_seq = 2
    /\ cb_i = fft_size

====
